---- MODULE Spec2Model ----
(***************************************************************************)
(* Koch snowflake generator (DrawKochSnowflake.py): the KochSnowFlake      *)
(* constructor, splitSegment, generateSide and DrawFlake.draw.             *)
(*                                                                         *)
(* Numbers.  The program computes with floats and math.sqrt(3).  The model *)
(* computes exactly in the field Q(sqrt 3): a number is (p + q*sqrt3)/d    *)
(* with integers p, q and d > 0 in lowest terms, so that equal numbers are *)
(* equal records.  Every coordinate the program derives from rational      *)
(* inputs by +, -, *, / and sqrt(3) is such a number; rounding error is    *)
(* not modelled.                                                           *)
(***************************************************************************)
EXTENDS Integers, Sequences, FiniteSets

VARIABLES
    pc,        \* position of the running call
    arg,       \* the arguments of the running call
    ret,       \* the value the call returned (a list of points)
    raised,    \* TRUE when the call ended in ZeroDivisionError
    flake,     \* the KochSnowFlake object: M, VertexA, VertexB, VertexC
    calls,     \* the splitSegment calls made so far: <<s1, s2, result>>
    pen,       \* turtle pen: "up" or "down"
    pos,       \* turtle position
    trail,     \* every setpos so far: <<point, pen state at the move>>
    edges,     \* draw's local list `edges`
    side,      \* which of draw's three loops is running (1..3)
    idx        \* index of the next point of `edges` to visit

vars == <<pc, arg, ret, raised, flake, calls, pen, pos, trail, edges, side, idx>>

---------------------------------------------------------------------------
(* Exact arithmetic in Q(sqrt 3) *)

Abs(n) == IF n < 0 THEN -n ELSE n

Sgn(n) == IF n < 0 THEN -1 ELSE IF n > 0 THEN 1 ELSE 0

RECURSIVE Gcd(_, _)
Gcd(a, b) == IF b = 0 THEN a ELSE Gcd(b, a % b)

\* (p + q*sqrt3)/d in lowest terms, d > 0; a zero denominator never reaches here
Norm(p, q, d) ==
    LET Reduce(g, s) == [p |-> s * (p \div g), q |-> s * (q \div g), d |-> s * (d \div g)]
    IN  Reduce(Gcd(Gcd(Abs(p), Abs(q)), Abs(d)), IF d < 0 THEN -1 ELSE 1)

Q(n) == [p |-> n, q |-> 0, d |-> 1]

Frac(n, d) == Norm(n, 0, d)

Zero == Q(0)

sqrt3 == [p |-> 0, q |-> 1, d |-> 1]

QNeg(x) == [p |-> -x.p, q |-> -x.q, d |-> x.d]

\* over the least common denominator
QAdd(x, y) ==
    LET Over(fx, fy) == Norm(x.p * fx + y.p * fy, x.q * fx + y.q * fy, x.d * fx)
        Lcd(g) == Over(y.d \div g, x.d \div g)
    IN  Lcd(Gcd(x.d, y.d))

QSub(x, y) == QAdd(x, QNeg(y))

\* (xp + xq*sqrt3)(yp + yq*sqrt3) = xp*yp + 3*xq*yq + (xp*yq + xq*yp)*sqrt3, each
\* numerator first reduced against the other denominator
QMul(x, y) ==
    LET Prod(xp, xq, xd, yp, yq, yd) ==
            Norm(xp * yp + 3 * xq * yq, xp * yq + xq * yp, xd * yd)
        Cross(g1, g2) ==
            Prod(x.p \div g1, x.q \div g1, x.d \div g2, y.p \div g2, y.q \div g2, y.d \div g1)
    IN  Cross(Gcd(Gcd(Abs(x.p), Abs(x.q)), y.d), Gcd(Gcd(Abs(y.p), Abs(y.q)), x.d))

\* 1/x for x # 0: d*(p - q*sqrt3) / (p^2 - 3q^2)
QInv(x) ==
    IF x.q = 0
    THEN Norm(x.d * Sgn(x.p), 0, Abs(x.p))
    ELSE LET Conj(g, p, q) == Norm(x.d * p, -(x.d * q), g * (p * p - 3 * q * q))
             Red(g) == Conj(g, x.p \div g, x.q \div g)
         IN  Red(Gcd(Abs(x.p), Abs(x.q)))

\* Python's x / y.  y = 0 raises ZeroDivisionError in the program: the model
\* records the divisor (see the divs fields below) and yields Zero here.
QDiv(x, y) == IF y = Zero THEN Zero ELSE QMul(x, QInv(y))

\* sign of n/d - t, for n, d > 0 and t the tail [a_k; a_k+1, ...] of the continued
\* fraction sqrt3 = [1; 1, 2, 1, 2, ...]: decided by integer parts alone, so that
\* no product leaves the 32-bit range
RECURSIVE CmpSqrt3(_, _, _)
CmpSqrt3(n, d, k) ==
    LET Cmp(a, f) ==
            IF f < a THEN -1
            ELSE IF f > a THEN 1
            ELSE IF n = f * d THEN -1
            ELSE -CmpSqrt3(d, n - f * d, k + 1)
    IN  Cmp(IF k > 0 /\ k % 2 = 0 THEN 2 ELSE 1, n \div d)

\* sign of a/b - c/d, for b, d > 0, by integer parts
RECURSIVE CmpRat(_, _, _, _)
CmpRat(a, b, c, d) ==
    LET Cmp(fa, fc, ra, rc) ==
            IF fa # fc THEN (IF fa < fc THEN -1 ELSE 1)
            ELSE IF ra = 0 \/ rc = 0
                 THEN (IF ra = rc THEN 0 ELSE IF ra = 0 THEN -1 ELSE 1)
                 ELSE -CmpRat(b, ra, d, rc)
    IN  Cmp(a \div b, c \div d, a % b, c % d)

\* sign of p + q*sqrt3
QSign(x) ==
    IF x.q = 0 THEN Sgn(x.p)
    ELSE IF x.p = 0 THEN Sgn(x.q)
    ELSE IF Sgn(x.p) = Sgn(x.q) THEN Sgn(x.p)
    ELSE IF CmpSqrt3(Abs(x.p), Abs(x.q), 0) > 0 THEN Sgn(x.p) ELSE Sgn(x.q)

QLt(x, y) ==
    IF x.q = 0 /\ y.q = 0
    THEN CmpRat(x.p, x.d, y.p, y.d) < 0
    ELSE QSign(QSub(x, y)) < 0

QAbs(x) == IF QSign(x) < 0 THEN QNeg(x) ELSE x

Pt(x, y) == <<Q(x), Q(y)>>

---------------------------------------------------------------------------
(* Program constants *)

\* abs(m) < 0.00001: the tolerance is 1/SlopeZeroInv
SlopeZeroInv == 100000

\* abs(m) > 1000000
SlopeVertical == 1000000

\* yv = 20.0 in TestSnowflake
TestVertexY == 20

\* Python's None (an undefined slope or intercept)
None == [none |-> TRUE]

sin120 == QDiv(sqrt3, Q(2))

cos120 == Frac(-1, 2)

---------------------------------------------------------------------------
(* KochSnowFlake.__init__ *)

\* VertexB and VertexC exchanged
KochSnowFlakeSwapped(xc, yc, xv, yv) ==
    LET x1 == QSub(xv, xc)
        y1 == QSub(yv, yc)
    IN  [M       |-> <<xc, yc>>,
         VertexA |-> <<xv, yv>>,
         VertexB |-> <<QAdd(QAdd(QMul(cos120, x1), QMul(sin120, y1)), xc),
                       QAdd(QAdd(QMul(QNeg(sin120), x1), QMul(cos120, y1)), yc)>>,
         VertexC |-> <<QAdd(QSub(QMul(cos120, x1), QMul(sin120, y1)), xc),
                       QAdd(QAdd(QMul(sin120, x1), QMul(cos120, y1)), yc)>>]

\* the sign of sin120 in the y coordinate of VertexC lost (line 28)
KochSnowFlakeSign(xc, yc, xv, yv) ==
    LET x1 == QSub(xv, xc)
        y1 == QSub(yv, yc)
    IN  [M       |-> <<xc, yc>>,
         VertexA |-> <<xv, yv>>,
         VertexB |-> <<QAdd(QSub(QMul(cos120, x1), QMul(sin120, y1)), xc),
                       QAdd(QAdd(QMul(sin120, x1), QMul(cos120, y1)), yc)>>,
         VertexC |-> <<QAdd(QAdd(QMul(cos120, x1), QMul(sin120, y1)), xc),
                       QAdd(QAdd(QMul(sin120, x1), QMul(cos120, y1)), yc)>>]

KochSnowFlake(xc, yc, xv, yv) ==
    LET x1 == QSub(xv, xc)
        y1 == QSub(yv, yc)
    IN  [M       |-> <<xc, yc>>,
         VertexA |-> <<xv, yv>>,
         VertexB |-> <<QAdd(QSub(QMul(cos120, x1), QMul(sin120, y1)), xc),
                       QAdd(QAdd(QMul(sin120, x1), QMul(cos120, y1)), yc)>>,
         VertexC |-> <<QAdd(QAdd(QMul(cos120, x1), QMul(sin120, y1)), xc),
                       QAdd(QAdd(QMul(QNeg(sin120), x1), QMul(cos120, y1)), yc)>>]

---------------------------------------------------------------------------
(* KochSnowFlake.splitSegment, statement by statement.  Each step that       *)
(* divides also reports the divisors it evaluated, in order (divs).          *)

\* lines 45-52: slopes close to zero become zero, slopes close to vertical
\* become vertical (None)
SnapSlope(m, x2, y2) ==
    IF QLt(QAbs(m), Frac(1, SlopeZeroInv))
    THEN [m |-> Zero, b |-> y2]
    ELSE IF QLt(Q(SlopeVertical), QAbs(m))
    THEN [m |-> None, b |-> None]
    ELSE [m |-> m, b |-> QSub(y2, QMul(m, x2))]

\* the guard of line 41 dropped: the slope is computed for every segment
SegmentLineUnguarded(s1, s2) ==
    [line |-> SnapSlope(QDiv(QSub(s2[2], s1[2]), QSub(s2[1], s1[1])), s2[1], s2[2]),
     divs |-> <<QSub(s2[1], s1[1])>>]

\* the equation y = m*x + b of the segment (line); m = b = None for a vertical
\* line.  divs: the divisor of line 42, when that line runs
SegmentLine(s1, s2) ==
    IF s2[1] # s1[1]
    THEN [line |-> SnapSlope(QDiv(QSub(s2[2], s1[2]), QSub(s2[1], s1[1])), s2[1], s2[2]),
          divs |-> <<QSub(s2[1], s1[1])>>]
    ELSE [line |-> [m |-> None, b |-> None], divs |-> <<>>]

\* pa: the midpoint of the segment
MidPoint(s1, s2) ==
    <<QDiv(QAdd(s2[1], s1[1]), Q(2)), QDiv(QAdd(s2[2], s1[2]), Q(2))>>

\* the line y = ma*x + ba through pa perpendicular to the segment.  divs: the
\* divisor of line 68, when that line runs
Perpendicular(m, pa) ==
    IF m = None
    THEN [ma |-> Zero, ba |-> pa[2], divs |-> <<>>]
    ELSE IF m = Zero
    THEN [ma |-> None, ba |-> None, divs |-> <<>>]
    ELSE LET Through(ma) ==
                 [ma |-> ma, ba |-> QSub(pa[2], QMul(ma, pa[1])), divs |-> <<m>>]
         IN  Through(QDiv(Q(-1), m))

\* p1 and p3, the endpoints of the base of the new triangle
BasePoints(s1, s2, m, b) ==
    IF m # None
    THEN LET P3(len, p1) == <<p1, <<QAdd(p1[1], len), QAdd(QMul(m, QAdd(p1[1], len)), b)>>>>
             P1(len) == P3(len, <<QAdd(s1[1], len), QAdd(QMul(m, QAdd(s1[1], len)), b)>>)
         IN  P1(QDiv(QSub(s2[1], s1[1]), Q(3)))
    ELSE LET P3(len, p1) == <<p1, <<s1[1], QAdd(p1[2], len)>>>>
             P1(len) == P3(len, <<s1[1], QAdd(s1[2], len)>>)
         IN  P1(QDiv(QSub(s2[2], s1[2]), Q(3)))

\* the sign of line 86 turned: the apex of a horizontal segment goes to the
\* other side
ApexFlipped(pa, p1, ma, ba) ==
    LET OnLine(x) == <<x, QAdd(QMul(ma, x), ba)>>
    IN  IF ma = None
        THEN <<pa[1], QAdd(pa[2], QMul(sqrt3, QSub(pa[1], p1[1])))>>
        ELSE OnLine(QAdd(pa[1], QMul(sqrt3, QSub(pa[2], p1[2]))))

\* p2 on the altitude line
Apex(pa, p1, ma, ba) ==
    LET OnLine(x) == <<x, QAdd(QMul(ma, x), ba)>>
    IN  IF ma = None
        THEN <<pa[1], QSub(pa[2], QMul(sqrt3, QSub(pa[1], p1[1])))>>
        ELSE OnLine(QAdd(pa[1], QMul(sqrt3, QSub(pa[2], p1[2]))))

\* the divisors one call evaluates, in order: x2 - x1 (line 42), 2 twice
\* (line 58), m (line 68), 3.0 (line 73 or 77)
splitSegmentDivs(s1, s2) ==
    LET Divs(seg, pa) ==
            seg.divs \o <<Q(2), Q(2)>> \o Perpendicular(seg.line.m, pa).divs \o <<Q(3)>>
    IN  Divs(SegmentLine(s1, s2), MidPoint(s1, s2))

\* TRUE when the call ends in ZeroDivisionError instead of returning
splitSegmentRaises(s1, s2) ==
    LET Any(divs) == \E k \in DOMAIN divs : divs[k] = Zero
    IN  Any(splitSegmentDivs(s1, s2))

\* the returned list [p1, p2, p3, s2]
splitSegment(s1, s2) ==
    LET List(pa, perp, base) ==
            <<base[1], Apex(pa, base[1], perp.ma, perp.ba), base[2], s2>>
        On(line, pa) ==
            List(pa, Perpendicular(line.m, pa), BasePoints(s1, s2, line.m, line.b))
    IN  On(SegmentLine(s1, s2).line, MidPoint(s1, s2))

---------------------------------------------------------------------------
(* KochSnowFlake.generateSide: the returned list (side), the splitSegment   *)
(* calls it made in order (calls), and whether one of them raised.          *)

\* lists joined in order
RECURSIVE Concat(_)
Concat(lists) ==
    IF lists = <<>> THEN <<>> ELSE Head(lists) \o Concat(Tail(lists))

RECURSIVE generateSide(_, _, _)

\* the last extend (line 110) forgotten
generateSideThree(vertex1, vertex2, level) ==
    LET Call(points) == [s1 |-> vertex1, s2 |-> vertex2, out |-> points]
        Extend(points, g) ==
            [side   |-> Concat([k \in 1..3 |-> g[k].side]),
             calls  |-> <<Call(points)>> \o Concat([k \in 1..3 |-> g[k].calls]),
             raised |-> \/ splitSegmentRaises(vertex1, vertex2)
                        \/ \E k \in 1..3 : g[k].raised]
        Recurse(points) ==
            Extend(points, [k \in 1..3 |->
                generateSide(<<vertex1, points[1], points[2]>>[k], points[k], level - 1)])
        Once(points) ==
            [side   |-> points,
             calls  |-> <<Call(points)>>,
             raised |-> splitSegmentRaises(vertex1, vertex2)]
    IN  IF level > 1 THEN Recurse(splitSegment(vertex1, vertex2))
        ELSE IF level = 1 THEN Once(splitSegment(vertex1, vertex2))
        ELSE [side |-> <<vertex2>>, calls |-> <<>>, raised |-> FALSE]

\* only level 0 taken as the base case: a negative level splits once
generateSideZeroOnly(vertex1, vertex2, level) ==
    LET Call(points) == [s1 |-> vertex1, s2 |-> vertex2, out |-> points]
        Extend(points, g) ==
            [side   |-> Concat([k \in 1..4 |-> g[k].side]),
             calls  |-> <<Call(points)>> \o Concat([k \in 1..4 |-> g[k].calls]),
             raised |-> \/ splitSegmentRaises(vertex1, vertex2)
                        \/ \E k \in 1..4 : g[k].raised]
        Sub(points, from, to) ==
            Extend(points, [k \in 1..4 |-> generateSide(from[k], to[k], level - 1)])
        Recurse(points) ==
            Sub(points, <<vertex1, points[1], points[2], points[3]>>,
                        <<points[1], points[2], points[3], vertex2>>)
        Once(points) ==
            [side   |-> points,
             calls  |-> <<Call(points)>>,
             raised |-> splitSegmentRaises(vertex1, vertex2)]
    IN  IF level > 1 THEN Recurse(splitSegment(vertex1, vertex2))
        ELSE IF level # 0 THEN Once(splitSegment(vertex1, vertex2))
        ELSE [side |-> <<vertex2>>, calls |-> <<>>, raised |-> FALSE]

generateSide(vertex1, vertex2, level) ==
    LET Call(points) == [s1 |-> vertex1, s2 |-> vertex2, out |-> points]
        \* side = g[1]; side.extend(g[2]); side.extend(g[3]); side.extend(g[4])
        Extend(points, g) ==
            [side   |-> Concat([k \in 1..4 |-> g[k].side]),
             calls  |-> <<Call(points)>> \o Concat([k \in 1..4 |-> g[k].calls]),
             raised |-> \/ splitSegmentRaises(vertex1, vertex2)
                        \/ \E k \in 1..4 : g[k].raised]
        \* the four recursive calls of lines 107-110, in order
        Sub(points, from, to) ==
            Extend(points, [k \in 1..4 |-> generateSide(from[k], to[k], level - 1)])
        Recurse(points) ==
            Sub(points, <<vertex1, points[1], points[2], points[3]>>,
                        <<points[1], points[2], points[3], vertex2>>)
        Once(points) ==
            [side   |-> points,
             calls  |-> <<Call(points)>>,
             raised |-> splitSegmentRaises(vertex1, vertex2)]
    IN  IF level > 1 THEN Recurse(splitSegment(vertex1, vertex2))
        ELSE IF level = 1 THEN Once(splitSegment(vertex1, vertex2))
        ELSE [side |-> <<vertex2>>, calls |-> <<>>, raised |-> FALSE]

---------------------------------------------------------------------------
(* Bounds and input sets *)

\* segment endpoints for splitSegment: integer coordinates in -MaxCoord..MaxCoord
MaxCoord == 2

\* generateSide endpoints: offsets in -MaxVertex..MaxVertex from each origin
MaxVertex == 1

\* recursion levels run up to MaxLevel
MaxLevel == 3

\* recursion levels run down to -MinLevel
MinLevel == 1

\* how far past the two slope tolerances the near-horizontal and near-vertical
\* inputs go
MaxPast == 2

Signs == {-1, 1}

Grid(n) == {Pt(x, y) : x \in -n..n, y \in -n..n}

Origins == {Pt(0, 0), Pt(1, -1)}

\* slopes +-1/(SlopeZeroInv + k), k >= 1: just below the 0.00001 tolerance
NearHorizontal ==
    {<<o, <<QAdd(o[1], Q(sx)), QAdd(o[2], Frac(sy, SlopeZeroInv + k))>>>> :
        o \in Origins, sx \in Signs, sy \in Signs, k \in 1..MaxPast}

\* slopes +-(SlopeVertical + k), k >= 1: just above the 1000000 tolerance
NearVertical ==
    {<<o, <<QAdd(o[1], Frac(sx, SlopeVertical + k)), QAdd(o[2], Q(sy))>>>> :
        o \in Origins, sx \in Signs, sy \in Signs, k \in 1..MaxPast}

\* endpoints with an irrational coordinate, as the vertices B and C have
Irrational ==
    {<<o, <<QAdd(o[1], Q(x)), QAdd(o[2], QMul(Q(y), sqrt3))>>>> :
        o \in Origins, x \in -1..1, y \in Signs}
    \cup {<<o, <<QAdd(o[1], QMul(Q(x), sqrt3)), QAdd(o[2], Q(y))>>>> :
        o \in Origins, x \in Signs, y \in -1..1}

SplitInputs ==
    (Grid(MaxCoord) \X Grid(MaxCoord)) \cup NearHorizontal \cup NearVertical
        \cup Irrational

\* (xc, yc, xv, yv) for the constructor; the last is TestSnowflake's triangle
FlakeInputs ==
    {<<c[1], c[2], v[1], v[2]>> : c \in Grid(MaxCoord), v \in Grid(MaxCoord)}
        \cup {<<Q(0), Q(0), Q(0), Q(TestVertexY)>>}

SideInputs ==
    {<<o, <<QAdd(o[1], v[1]), QAdd(o[2], v[2])>>>> :
        o \in Origins, v \in Grid(MaxVertex)}

\* (xc, yc, xv, yv) for draw: TestSnowflake's triangle, and triangles about
\* the centroid (1, -1), one of them with the vertex on the centroid
DrawInputs ==
    {<<Q(1), Q(-1), Q(1 + v[1]), Q(-1 + v[2])>> :
        v \in {<<0, 1>>, <<1, 0>>, <<-1, -1>>, <<2, -1>>, <<0, 0>>}}
        \cup {<<Q(0), Q(0), Q(0), Q(TestVertexY)>>}

---------------------------------------------------------------------------
(* Specifications.  The variables a specification does not use keep the    *)
(* values Idle gives them.                                                 *)

Idle ==
    /\ ret = <<>>
    /\ raised = FALSE
    /\ flake = None
    /\ calls = <<>>
    /\ pen = "down"
    /\ pos = Pt(0, 0)
    /\ trail = <<>>
    /\ edges = <<>>
    /\ side = 0
    /\ idx = 0

\* splitSegment applied to one segment
InitSplit ==
    /\ pc = "call"
    /\ \E i \in SplitInputs : arg = [s1 |-> i[1], s2 |-> i[2]]
    /\ Idle

Split ==
    /\ pc = "call"
    /\ LET Return(r) ==
               /\ raised' = r
               /\ ret' = IF r THEN <<>> ELSE splitSegment(arg.s1, arg.s2)
               /\ pc' = IF r THEN "raised" ELSE "returned"
       IN  Return(splitSegmentRaises(arg.s1, arg.s2))
    /\ UNCHANGED <<arg, flake, calls, pen, pos, trail, edges, side, idx>>

NextSplit == Split

SpecSplit == InitSplit /\ [][NextSplit]_vars

\* the constructor applied to one centroid and vertex
InitFlake ==
    /\ pc = "call"
    /\ \E i \in FlakeInputs : arg = [xc |-> i[1], yc |-> i[2], xv |-> i[3], yv |-> i[4]]
    /\ Idle

Construct ==
    /\ pc = "call"
    /\ flake' = KochSnowFlake(arg.xc, arg.yc, arg.xv, arg.yv)
    /\ pc' = "returned"
    /\ UNCHANGED <<arg, ret, raised, calls, pen, pos, trail, edges, side, idx>>

NextFlake == Construct

SpecFlake == InitFlake /\ [][NextFlake]_vars

\* generateSide applied to one pair of vertices and one level
InitSide ==
    /\ pc = "call"
    /\ \E i \in SideInputs, l \in -MinLevel..MaxLevel :
          arg = [vertex1 |-> i[1], vertex2 |-> i[2], level |-> l]
    /\ Idle

GenerateSide ==
    /\ pc = "call"
    /\ LET Return(g) ==
               /\ raised' = g.raised
               /\ calls' = g.calls
               /\ ret' = IF g.raised THEN <<>> ELSE g.side
               /\ pc' = IF g.raised THEN "raised" ELSE "returned"
       IN  Return(generateSide(arg.vertex1, arg.vertex2, arg.level))
    /\ UNCHANGED <<arg, flake, pen, pos, trail, edges, side, idx>>

NextSide == GenerateSide

SpecSide == InitSide /\ [][NextSide]_vars

---------------------------------------------------------------------------
(* DrawFlake.draw, one statement per step.  The turtle starts at the origin *)
(* with its pen down; setpos moves it and, pen down, draws the line.        *)

Init ==
    /\ pc = "new"
    /\ \E i \in DrawInputs, l \in 0..MaxLevel :
          arg = [xc |-> i[1], yc |-> i[2], xv |-> i[3], yv |-> i[4], level |-> l]
    /\ Idle

setpos(p) ==
    /\ pos' = p
    /\ trail' = Append(trail, <<p, pen>>)

\* flake = KochSnowFlake(xc, yc, xv, yv)
NewFlake ==
    /\ pc = "new"
    /\ flake' = KochSnowFlake(arg.xc, arg.yc, arg.xv, arg.yv)
    /\ pc' = "up"
    /\ UNCHANGED <<arg, ret, raised, calls, pen, pos, trail, edges, side, idx>>

\* self.t.up()
PenUp ==
    /\ pc = "up"
    /\ pen' = "up"
    /\ pc' = "start"
    /\ UNCHANGED <<arg, ret, raised, flake, calls, pos, trail, edges, side, idx>>

\* self.t.setpos(flake.VertexA)
MoveToA ==
    /\ pc = "start"
    /\ setpos(flake.VertexA)
    /\ pc' = "down"
    /\ UNCHANGED <<arg, ret, raised, flake, calls, pen, edges, side, idx>>

\* self.t.down()
PenDown ==
    /\ pc = "down"
    /\ pen' = "down"
    /\ side' = 1
    /\ pc' = "edges"
    /\ UNCHANGED <<arg, ret, raised, flake, calls, pos, trail, edges, idx>>

\* the two vertices draw passes to generateSide for its k-th side
SideFrom(k) == IF k = 1 THEN flake.VertexA ELSE IF k = 2 THEN flake.VertexB ELSE flake.VertexC

\* the third side ended at VertexB: the outline is left open
SideToOpen(k) == IF k = 1 THEN flake.VertexB ELSE IF k = 2 THEN flake.VertexC ELSE flake.VertexB

SideTo(k) == IF k = 1 THEN flake.VertexB ELSE IF k = 2 THEN flake.VertexC ELSE flake.VertexA

\* edges = flake.generateSide(..., level)
Edges ==
    /\ pc = "edges"
    /\ LET Return(g) ==
               /\ raised' = g.raised
               /\ calls' = calls \o g.calls
               /\ edges' = IF g.raised THEN edges ELSE g.side
               /\ pc' = IF g.raised THEN "raised" ELSE "for"
       IN  Return(generateSide(SideFrom(side), SideTo(side), arg.level))
    /\ idx' = 1
    /\ UNCHANGED <<arg, ret, flake, pen, pos, trail, side>>

\* for point in edges: self.t.setpos(point)
Visit ==
    /\ pc = "for"
    /\ idx <= Len(edges)
    /\ setpos(edges[idx])
    /\ idx' = idx + 1
    /\ UNCHANGED <<pc, arg, ret, raised, flake, calls, pen, edges, side>>

\* the loop is exhausted: on to the next side, or return
EndFor ==
    /\ pc = "for"
    /\ idx > Len(edges)
    /\ IF side < 3
       THEN side' = side + 1 /\ pc' = "edges"
       ELSE side' = side /\ pc' = "done"
    /\ UNCHANGED <<arg, ret, raised, flake, calls, pen, pos, trail, edges, idx>>

Next == NewFlake \/ PenUp \/ MoveToA \/ PenDown \/ Edges \/ Visit \/ EndFor

Spec == Init /\ [][Next]_vars

---------------------------------------------------------------------------
(* Geometry used to state the properties *)

RECURSIVE Pow4(_)
Pow4(n) == IF n <= 0 THEN 1 ELSE 4 * Pow4(n - 1)

VSub(a, b) == <<QSub(a[1], b[1]), QSub(a[2], b[2])>>

VAdd(a, b) == <<QAdd(a[1], b[1]), QAdd(a[2], b[2])>>

VScale(c, a) == <<QMul(c, a[1]), QMul(c, a[2])>>

Dot(u, v) == QAdd(QMul(u[1], v[1]), QMul(u[2], v[2]))

\* u x v: positive when v points to the left of u, negative when to the right
Cross(u, v) == QSub(QMul(u[1], v[2]), QMul(u[2], v[1]))

DistSq(a, b) == Dot(VSub(a, b), VSub(a, b))

\* the point at n/d of the way from s1 to s2.  p = Along(s1, s2, 1, 3) says exactly
\* that p lies on the segment with |s1 p| = |s1 s2|/3
Along(s1, s2, n, d) == VAdd(s1, VScale(Frac(n, d), VSub(s2, s1)))

\* v turned a quarter turn clockwise
Right(v) == <<v[2], QNeg(v[1])>>

\* the apex of the equilateral triangle on base p1-p3 that lies to the right of
\* p1 -> p3: the midpoint moved by (sqrt3/2)|p1 p3| along the perpendicular
RightApex(p1, p3) ==
    VAdd(Along(p1, p3, 1, 2), VScale(QDiv(sqrt3, Q(2)), Right(VSub(p3, p1))))

\* the apex on the other side: the mirror image of the right one in the base
LeftApex(p1, p3) ==
    VSub(Along(p1, p3, 1, 2), VScale(QDiv(sqrt3, Q(2)), Right(VSub(p3, p1))))

\* |p1 p2| = |p3 p2| = |p1 p3|: p2 is one of the two apexes on base p1-p3
Equilateral(p1, p2, p3) == p2 = RightApex(p1, p3) \/ p2 = LeftApex(p1, p3)

\* |x - n/d| < 1/tol
Near(x, n, d, tol) == QLt(QAbs(QSub(x, Frac(n, d))), Frac(1, tol))

Returned == pc = "returned"

Segment == <<arg.s1, arg.s2>>

---------------------------------------------------------------------------
(* Properties of generateSide (SpecSide) *)

\* C1: generateSide(v1, v2, level) returns exactly 4^level points for level >= 1
C1_SideLength ==
    (Returned /\ arg.level >= 1) => Len(ret) = Pow4(arg.level)

C1_Witness ==
    /\ Returned
    /\ arg.level = MaxLevel
    /\ arg.vertex1 # arg.vertex2
    /\ Len(ret) = Pow4(MaxLevel)
    /\ Len(ret) >= 64

\* C2: for level <= 0, zero or negative, generateSide returns [v2] and makes no
\* call of splitSegment
C2_BaseCase ==
    (pc # "call" /\ arg.level <= 0) =>
        /\ Returned
        /\ ret = <<arg.vertex2>>
        /\ calls = <<>>

C2_Witness ==
    /\ Returned
    /\ arg.level < 0
    /\ arg.vertex1 # arg.vertex2
    /\ ret = <<arg.vertex2>>
    /\ calls = <<>>

---------------------------------------------------------------------------
(* Properties of splitSegment (SpecSplit) *)

\* C3: for s1 # s2 the first and third returned points lie at 1/3 and 2/3 of the
\* way from s1 to s2, on the segment, also when the slope was snapped to
\* horizontal or to vertical
C3_Trisection ==
    (Returned /\ arg.s1 # arg.s2) =>
        /\ ret[1] = Along(arg.s1, arg.s2, 1, 3)
        /\ ret[3] = Along(arg.s1, arg.s2, 2, 3)

\* C4: for s1 # s2 the apex p2 is at distance |p1 p3| from both p1 and p3: p1,
\* p2, p3 form an equilateral triangle, in every branch
C4_Equilateral ==
    (Returned /\ arg.s1 # arg.s2) => Equilateral(ret[1], ret[2], ret[3])

\* C9: for s1 # s2 splitSegment never divides by zero, and returns four points,
\* the fourth of them s2
C9_Total ==
    (pc # "call" /\ arg.s1 # arg.s2) =>
        /\ Returned
        /\ ~raised
        /\ \A k \in DOMAIN splitSegmentDivs(arg.s1, arg.s2) :
              splitSegmentDivs(arg.s1, arg.s2)[k] # Zero
        /\ Len(ret) = 4
        /\ ret[4] = arg.s2

\* a vertical and a horizontal segment have returned: the two guarded divisions
C9_Witness ==
    /\ Returned
    /\ arg.s1 # arg.s2
    /\ \/ arg.s1[1] = arg.s2[1]
       \/ arg.s1[2] = arg.s2[2]
    /\ Len(splitSegmentDivs(arg.s1, arg.s2)) = 3 + (IF arg.s1[1] = arg.s2[1] THEN 0 ELSE 1)
    /\ ret[4] = arg.s2

---------------------------------------------------------------------------
(* Properties of the constructor (SpecFlake) *)

\* C5: |M A| = |M B| = |M C|, and the angles at M between A and B, B and C, C and
\* A are 120 degrees each: with equal lengths, u.v = |u||v| cos 120 = -|u|^2/2
C5_EquilateralTriangle ==
    Returned =>
        LET u == VSub(flake.VertexA, flake.M)
            v == VSub(flake.VertexB, flake.M)
            w == VSub(flake.VertexC, flake.M)
        IN  /\ Dot(u, u) = Dot(v, v)
            /\ Dot(v, v) = Dot(w, w)
            /\ QMul(Q(2), Dot(u, v)) = QNeg(Dot(u, u))
            /\ QMul(Q(2), Dot(v, w)) = QNeg(Dot(v, v))
            /\ QMul(Q(2), Dot(w, u)) = QNeg(Dot(w, w))

C5_Witness ==
    /\ Returned
    /\ flake.VertexA # flake.M
    /\ arg.xc # Zero
    /\ arg.xv # arg.xc
    /\ arg.yv # arg.yc
    /\ flake.VertexB # flake.VertexC
    /\ DistSq(flake.VertexB, flake.M) = DistSq(flake.VertexA, flake.M)

TestTriangle == arg = [xc |-> Q(0), yc |-> Q(0), xv |-> Q(0), yv |-> Q(TestVertexY)]

\* C6 as stated: centroid (0,0), vertex (0,20) give B ~ (17.32, -10) and
\* C ~ (-17.32, -10), B the vertex with positive x
C6_AsStated ==
    (Returned /\ TestTriangle) =>
        /\ Near(flake.VertexB[1], 1732, 100, 100)
        /\ flake.VertexB[2] = Q(-10)
        /\ Near(flake.VertexC[1], -1732, 100, 100)
        /\ flake.VertexC[2] = Q(-10)
        /\ QSign(flake.VertexB[1]) > 0
        /\ QSign(flake.VertexC[1]) < 0

\* C6 amended: centroid (0,0), vertex (0,20) give B = (-10*sqrt3, -10) ~
\* (-17.32, -10) and C = (10*sqrt3, -10) ~ (17.32, -10): B is the vertex with
\* negative x, C the one with positive x
C6_Amended ==
    (Returned /\ TestTriangle) =>
        /\ flake.VertexB = <<QMul(Q(-10), sqrt3), Q(-10)>>
        /\ flake.VertexC = <<QMul(Q(10), sqrt3), Q(-10)>>
        /\ Near(flake.VertexB[1], -1732, 100, 100)
        /\ Near(flake.VertexC[1], 1732, 100, 100)
        /\ QSign(flake.VertexB[1]) < 0
        /\ QSign(flake.VertexC[1]) > 0

C6_Witness ==
    /\ Returned
    /\ TestTriangle
    /\ flake.VertexA = Pt(0, TestVertexY)
    /\ QSign(flake.VertexB[1]) < 0

---------------------------------------------------------------------------
(* Properties of draw (Spec) *)

Points(t) == [k \in DOMAIN t |-> t[k][1]]

\* VertexA followed by the points of the first n sides
Outline(n) ==
    <<flake.VertexA>>
        \o (IF n >= 1 THEN generateSide(flake.VertexA, flake.VertexB, arg.level).side
                      ELSE <<>>)
        \o (IF n >= 2 THEN generateSide(flake.VertexB, flake.VertexC, arg.level).side
                      ELSE <<>>)
        \o (IF n >= 3 THEN generateSide(flake.VertexC, flake.VertexA, arg.level).side
                      ELSE <<>>)

\* C7: draw moves to VertexA with the pen up, puts the pen down once and never
\* lifts it again, then visits in order the points of side A-B, side B-C and
\* side C-A; it ends at VertexA, and at level 0 the path is A, B, C, A
C7_ClosedOutline ==
    /\ trail # <<>> => trail[1] = <<flake.VertexA, "up">>
    /\ \A k \in 2..Len(trail) : trail[k][2] = "down"
    /\ pc \in {"edges", "for", "done"} => pen = "down"
    /\ pc = "edges" => Points(trail) = Outline(side - 1)
    /\ (pc = "for" /\ idx > 1) =>
          /\ pos = edges[idx - 1]
          /\ trail[Len(trail)][1] = edges[idx - 1]
    /\ pc = "done" =>
          /\ Points(trail) = Outline(3)
          /\ pos = flake.VertexA
          /\ trail[Len(trail)][1] = flake.VertexA
          /\ arg.level = 0 => Points(trail) = <<flake.VertexA, flake.VertexB,
                                                 flake.VertexC, flake.VertexA>>

C7_Witness ==
    /\ pc = "done"
    /\ arg.level = MaxLevel
    /\ flake.VertexA # flake.M
    /\ Len(trail) = 1 + 3 * Pow4(MaxLevel)
    /\ pos = flake.VertexA

\* C8: every apex splitSegment returns while the three sides are generated at a
\* level >= 1 is, of the two apexes on its base, the one furthest from self.M
C8_ApexFurthest ==
    \A k \in DOMAIN calls :
      arg.level >= 1 =>
        ~QLt(DistSq(calls[k].out[2], flake.M),
             DistSq(VSub(VAdd(calls[k].out[1], calls[k].out[3]), calls[k].out[2]),
                    flake.M))

====
